---- MODULE Spec2Model ----
(***************************************************************************)
(* Model of the GURPS Grapple Party module (scripts/grapple-utils.js and   *)
(* scripts/main.js): the occupancy tables of GrappleUtils.state, the busy  *)
(* guard of updateTokenSafe, the four hook handlers with their awaits, and *)
(* the enable/disable life cycle of main.js.                               *)
(*                                                                         *)
(* Units: pixels are integers; scales are hundredths (100 is scale 1.0,    *)
(* the 0.01 tolerance of setScaleOnly is 1).  The host grid is one row of  *)
(* cells of GridSize pixels; with GridSize 100 and the configured          *)
(* fractions every intermediate value of the layout arithmetic is an       *)
(* integer.  A cell key "col,row" is the pair <<col, row>>.                *)
(***************************************************************************)
EXTENDS Integers, Sequences, FiniteSets, TLC

\* ------------------------------------------------------------ bounds
\* host events (create, delete, move, life-cycle calls) in one behaviour
MaxEvents == 3
\* handlers suspended at an await at the same time
MaxTasks == 2
\* enableModule/disableModule calls awaiting their settings write
MaxWrites == 2

\* ------------------------------------------------------------ universe
Tokens == {"A", "B", "C"}
\* canvas.scene.tokens.contents order
TokenOrder == <<"A", "B", "C">>
Cols == 0..2
None == "none"
NoKey == <<>>

\* ------------------------------------------------------------ configuration
GridSize == 100
TokenWidth == 1
PairScale == 40
SoloScale == 100
CenterDistance == -10
NEWCOMER_OFFSET_GRID_FRAC_X == -30
NEWCOMER_OFFSET_GRID_FRAC_Y == -30
ScaleTolerance == 1

Abs(n) == IF n < 0 THEN -n ELSE n

\* Math.round(n / d) for d > 0: halves round up
Round(n, d) == (2 * n + d) \div (2 * d)

\* ------------------------------------------------------------ host grid service
\* canvas.grid.getGridPositionFromPixels
GetGridPositionFromPixels(px, py) == <<px \div GridSize, py \div GridSize>>

\* canvas.grid.getPixelsFromGridPosition
GetPixelsFromGridPosition(col, row) == [x |-> col * GridSize, y |-> row * GridSize]

\* ------------------------------------------------------------ GridMath
keyFromXY(x, y, width, height) ==
  GetGridPositionFromPixels(x + (width * GridSize) \div 2, y + (height * GridSize) \div 2)

keyFromDoc(doc) == keyFromXY(doc.x, doc.y, doc.width, doc.height)

\* centerFromKey that adds the whole grid size instead of half of it
centerFromKeyFullGrid(key) ==
  LET p == GetPixelsFromGridPosition(key[1], key[2])
  IN [x |-> p.x + GridSize, y |-> p.y + GridSize]

centerFromKey(key) ==
  LET p == GetPixelsFromGridPosition(key[1], key[2])
      halfGrid == GridSize \div 2
  IN [x |-> p.x + halfGrid, y |-> p.y + halfGrid]

midpoint(pointA, pointB) ==
  [x |-> (pointA.x + pointB.x) \div 2, y |-> (pointA.y + pointB.y) \div 2]

\* numerators of the pixel size over 100: width * gridSize * scale
getPixelSize(doc, scale) ==
  [w |-> doc.width * GridSize * scale, h |-> doc.height * GridSize * scale]

\* sum and number of the scale-like fields that are numbers
getApproximateScale(doc) ==
  IF doc.scaleSet THEN [sum |-> doc.scale + doc.sx + doc.sy, n |-> 3]
  ELSE [sum |-> doc.sx + doc.sy, n |-> 2]

\* Math.abs(getApproximateScale(doc) - scale) > 0.01
ScaleDiffers(doc, scale) ==
  LET a == getApproximateScale(doc)
  IN Abs(a.sum - a.n * scale) > a.n * ScaleTolerance

\* Math.hypot, exact on the axis-aligned vectors of a one-row grid
RECURSIVE ISqrt(_, _)
ISqrt(n, r) == IF (r + 1) * (r + 1) > n THEN r ELSE ISqrt(n, r + 1)

Hypot(dx, dy) ==
  IF dy = 0 THEN Abs(dx) ELSE IF dx = 0 THEN Abs(dy) ELSE ISqrt(dx * dx + dy * dy, 0)

\* center-in-hex data that forgets the half footprint: the token's corner on the centre
CenterDataNoFootprint(doc, key) ==
  [xy |-> TRUE, x |-> centerFromKey(key).x, y |-> centerFromKey(key).y,
   sc |-> TRUE, scale |-> SoloScale]

\* update data of the "center in hex at solo scale" write
CenterData(doc, key) ==
  LET center == centerFromKey(key)
      size == getPixelSize(doc, SoloScale)
  IN [xy |-> TRUE, x |-> Round(200 * center.x - size.w, 200),
      y |-> Round(200 * center.y - size.h, 200),
      sc |-> TRUE, scale |-> SoloScale]

ScaleData(scale) == [xy |-> FALSE, x |-> 0, y |-> 0, sc |-> TRUE, scale |-> scale]

\* newcomer data whose radial direction runs from the midpoint to the destination
\* centre
NewcomerDataReversed(doc, mv, distance) ==
  LET basePosition == midpoint(mv.oldCenter, mv.newCenter)
      gridOffsetX == (GridSize * NEWCOMER_OFFSET_GRID_FRAC_X) \div 100
      gridOffsetY == (GridSize * NEWCOMER_OFFSET_GRID_FRAC_Y) \div 100
      directionX == mv.newCenter.x - basePosition.x
      directionY == mv.newCenter.y - basePosition.y
      hyp == Hypot(directionX, directionY)
      directionLength == IF hyp = 0 THEN 1 ELSE hyp
      pushDistance == (GridSize * distance) \div 100
      targetX == basePosition.x + (directionX * pushDistance) \div directionLength + gridOffsetX
      targetY == basePosition.y + (directionY * pushDistance) \div directionLength + gridOffsetY
      size == getPixelSize(doc, PairScale)
      differs == ScaleDiffers(doc, PairScale)
  IN [xy |-> TRUE, x |-> Round(200 * targetX - size.w, 200),
      y |-> Round(200 * targetY - size.h, 200),
      sc |-> differs, scale |-> IF differs THEN PairScale ELSE 0]

\* update data of the newcomer write: midpoint + radial push + grid offsets;
\* distance is the value of getCenterDistance()
NewcomerData(doc, mv, distance) ==
  LET basePosition == midpoint(mv.oldCenter, mv.newCenter)
      gridOffsetX == (GridSize * NEWCOMER_OFFSET_GRID_FRAC_X) \div 100
      gridOffsetY == (GridSize * NEWCOMER_OFFSET_GRID_FRAC_Y) \div 100
      directionX == basePosition.x - mv.newCenter.x
      directionY == basePosition.y - mv.newCenter.y
      hyp == Hypot(directionX, directionY)
      directionLength == IF hyp = 0 THEN 1 ELSE hyp
      pushDistance == (GridSize * distance) \div 100
      targetX == basePosition.x + (directionX * pushDistance) \div directionLength + gridOffsetX
      targetY == basePosition.y + (directionY * pushDistance) \div directionLength + gridOffsetY
      size == getPixelSize(doc, PairScale)
      differs == ScaleDiffers(doc, PairScale)
  IN [xy |-> TRUE, x |-> Round(200 * targetX - size.w, 200),
      y |-> Round(200 * targetY - size.h, 200),
      sc |-> differs, scale |-> IF differs THEN PairScale ELSE 0]

\* ------------------------------------------------------------ state
VARIABLES
  docs,            \* the scene's token documents, by id
  moduleEnabled,   \* the world setting 'moduleEnabled'
  centerDistance,  \* the world setting 'centerDistance', in hundredths of a grid unit
  ready,           \* the host's 'ready' hook has fired
  reg,             \* the host's hook registry: active subscriptions {id, hook}
  nextId,          \* the id the host gives to the next Hooks.on
  hooks,           \* state.hooks: key -> subscription id
  win,             \* window[NAMESPACE] is set
  cells,           \* state.cells, a Map in insertion order: <<[key, set]>>
  firstInCell,     \* state.firstInCell
  pending,         \* state.pending
  busy,            \* state.busy
  arrangedTokens,  \* state.arrangedTokens
  tasks,           \* handlers suspended at `await tokenDoc.update(...)`
  hostMoves,       \* host updates between their pre-change and post-change
  writes,          \* enableModule/disableModule awaiting game.settings.set
  events,          \* host events so far
  act,             \* the step just taken
  issued,          \* mutations handed to the host in the step just taken
  done,            \* updateTokenSafe calls that returned in the step just taken
  notes            \* notifications delivered to handlers in the step just taken

vars == <<docs, moduleEnabled, centerDistance, ready, reg, nextId, hooks, win, cells, firstInCell,
          pending, busy, arrangedTokens, tasks, hostMoves, writes, events, act,
          issued, done, notes>>

\* ------------------------------------------------------------ maps
Put(f, k, v) == [x \in DOMAIN f \cup {k} |-> IF x = k THEN v ELSE f[x]]
Del(f, k) == [x \in DOMAIN f \ {k} |-> f[x]]
EmptyMap == [x \in {} |-> None]

SeqHas(q, e) == \E i \in DOMAIN q : q[i] = e
SeqDel(q, e) == SelectSeq(q, LAMBDA z : z # e)
SeqDrop(q, i) == [j \in 1..(Len(q) - 1) |-> IF j < i THEN q[j] ELSE q[j + 1]]

\* state.cells: Map.has / Map.get / Map.set / Map.delete in insertion order
CellHas(cs, key) == \E i \in DOMAIN cs : cs[i].key = key
CellGet(cs, key) == cs[CHOOSE i \in DOMAIN cs : cs[i].key = key].set
CellSet(cs, key, set) ==
  IF CellHas(cs, key)
  THEN [i \in DOMAIN cs |-> IF cs[i].key = key THEN [key |-> key, set |-> set] ELSE cs[i]]
  ELSE Append(cs, [key |-> key, set |-> set])
CellDelete(cs, key) == SelectSeq(cs, LAMBDA e : e.key # key)

\* the scan `for (const [key, tokenSet] of cells.entries()) if (tokenSet.has(id)) ...; break`
FindCell(cs, id) ==
  IF \E i \in DOMAIN cs : SeqHas(cs[i].set, id)
  THEN cs[CHOOSE i \in DOMAIN cs :
            /\ SeqHas(cs[i].set, id)
            /\ \A j \in DOMAIN cs : SeqHas(cs[j].set, id) => i <= j].key
  ELSE NoKey

\* canvas.tokens.get(id)?.document
IsLive(S, id) == id \in Tokens /\ S.docs[id].st = "live"

\* the tables a notification must leave alone when its entity is busy
Tables(S) == <<S.cells, S.firstInCell, S.pending, S.arranged>>

\* ------------------------------------------------------------ OccupancyTable
addToCell(S, key, tokenId) ==
  IF ~CellHas(S.cells, key)
  THEN [S EXCEPT !.cells = CellSet(@, key, <<tokenId>>),
                 !.firstInCell = Put(@, key, tokenId)]
  ELSE LET tokenSet == CellGet(S.cells, key)
       IN IF SeqHas(tokenSet, tokenId) THEN S
          ELSE [S EXCEPT !.cells = CellSet(@, key, Append(tokenSet, tokenId))]

\* removeFromCell that forgets `tokenSet.delete(tokenId)`
removeFromCellKeeps(S, key, tokenId) == [S EXCEPT !.arranged = @ \ {tokenId}]

\* removeFromCell without the reassignment of the first occupant
removeFromCellNoReassign(S, key, tokenId) ==
  IF ~CellHas(S.cells, key) THEN S
  ELSE LET tokenSet == SeqDel(CellGet(S.cells, key), tokenId)
           S1 == [S EXCEPT !.arranged = @ \ {tokenId}]
       IN IF Len(tokenSet) = 0
          THEN [S1 EXCEPT !.cells = CellDelete(@, key), !.firstInCell = Del(@, key)]
          ELSE [S1 EXCEPT !.cells = CellSet(@, key, tokenSet)]

\* removeFromCell that drops an emptied cell and keeps its first-occupant record
removeFromCellLeavesFirst(S, key, tokenId) ==
  IF ~CellHas(S.cells, key) THEN S
  ELSE LET tokenSet == SeqDel(CellGet(S.cells, key), tokenId)
           S1 == [S EXCEPT !.arranged = @ \ {tokenId}]
       IN IF Len(tokenSet) = 0
          THEN [S1 EXCEPT !.cells = CellDelete(@, key)]
          ELSE IF key \in DOMAIN S1.firstInCell /\ S1.firstInCell[key] = tokenId
          THEN [S1 EXCEPT !.cells = CellSet(@, key, tokenSet),
                          !.firstInCell = Put(@, key, tokenSet[1])]
          ELSE [S1 EXCEPT !.cells = CellSet(@, key, tokenSet)]

removeFromCell(S, key, tokenId) ==
  IF ~CellHas(S.cells, key) THEN S
  ELSE LET tokenSet == SeqDel(CellGet(S.cells, key), tokenId)
           S1 == [S EXCEPT !.arranged = @ \ {tokenId}]
       IN IF Len(tokenSet) = 0
          THEN [S1 EXCEPT !.cells = CellDelete(@, key), !.firstInCell = Del(@, key)]
          ELSE IF key \in DOMAIN S1.firstInCell /\ S1.firstInCell[key] = tokenId
          THEN [S1 EXCEPT !.cells = CellSet(@, key, tokenSet),
                          !.firstInCell = Put(@, key, tokenSet[1])]
          ELSE [S1 EXCEPT !.cells = CellSet(@, key, tokenSet)]

\* ------------------------------------------------------------ notifications
SubCount(S, hook) == Cardinality({h \in S.reg : h.hook = hook})

\* the record of one handler invocation: S before, S2 (the value of `after`) after
\* its synchronous part
Noted(S, kind, echo, tokenId, after) ==
  CHOOSE noted \in
    {[S2 EXCEPT !.notes = Append(@, [kind |-> kind, echo |-> echo, tok |-> tokenId,
                                     busy |-> tokenId \in S.busy,
                                     changed |-> Tables(S2) # Tables(S),
                                     issued |-> Len(S2.issued) - Len(S.issued)])]
       : S2 \in {after}} : TRUE

\* `if (this.state.busy.has(tokenDoc.id)) return;` of the two update handlers
IsBusyNever(S, tokenId) == FALSE

IsBusy(S, tokenId) == tokenId \in S.busy

NoPoint == [x |-> 0, y |-> 0]
NoMv == [has |-> FALSE, oldKey |-> NoKey, newKey |-> NoKey,
         oldCenter |-> NoPoint, newCenter |-> NoPoint]

\* handlePreUpdateToken without `if (oldKey === newKey) return;`
handlePreUpdateTokenSameCell(S, tokenId, changes) ==
  IF IsBusy(S, tokenId) THEN S
  ELSE IF ~changes.xy THEN S
  ELSE LET found == FindCell(S.cells, tokenId)
           oldKey == IF found # NoKey THEN found ELSE keyFromDoc(S.docs[tokenId])
           newKey == keyFromXY(changes.x, changes.y, S.docs[tokenId].width,
                               S.docs[tokenId].height)
           S1 == removeFromCell(S, oldKey, tokenId)
           S2 == addToCell(S1, newKey, tokenId)
       IN [S2 EXCEPT !.pending =
             Put(@, tokenId, [has |-> TRUE, oldKey |-> oldKey, newKey |-> newKey,
                              oldCenter |-> centerFromKey(oldKey),
                              newCenter |-> centerFromKey(newKey)])]

\* handlePreUpdateToken that stores the two cell centres the wrong way round
handlePreUpdateTokenSwapped(S, tokenId, changes) ==
  IF IsBusy(S, tokenId) THEN S
  ELSE IF ~changes.xy THEN S
  ELSE LET found == FindCell(S.cells, tokenId)
           oldKey == IF found # NoKey THEN found ELSE keyFromDoc(S.docs[tokenId])
           newKey == keyFromXY(changes.x, changes.y, S.docs[tokenId].width,
                               S.docs[tokenId].height)
       IN IF oldKey = newKey THEN S
          ELSE LET S1 == removeFromCell(S, oldKey, tokenId)
                   S2 == addToCell(S1, newKey, tokenId)
               IN [S2 EXCEPT !.pending =
                     Put(@, tokenId, [has |-> TRUE, oldKey |-> oldKey, newKey |-> newKey,
                                      oldCenter |-> centerFromKey(newKey),
                                      newCenter |-> centerFromKey(oldKey)])]

handlePreUpdateToken(S, tokenId, changes) ==
  IF IsBusy(S, tokenId) THEN S
  ELSE IF ~changes.xy THEN S
  ELSE LET found == FindCell(S.cells, tokenId)
           oldKey == IF found # NoKey THEN found ELSE keyFromDoc(S.docs[tokenId])
           newKey == keyFromXY(changes.x, changes.y, S.docs[tokenId].width,
                               S.docs[tokenId].height)
       IN IF oldKey = newKey THEN S
          ELSE LET S1 == removeFromCell(S, oldKey, tokenId)
                   S2 == addToCell(S1, newKey, tokenId)
               IN [S2 EXCEPT !.pending =
                     Put(@, tokenId, [has |-> TRUE, oldKey |-> oldKey, newKey |-> newKey,
                                      oldCenter |-> centerFromKey(oldKey),
                                      newCenter |-> centerFromKey(newKey)])]

RECURSIVE FirePre(_, _, _, _, _)
FirePre(S, echo, tokenId, changes, n) ==
  IF n = 0 THEN S
  ELSE FirePre(Noted(S, "pre", echo, tokenId, handlePreUpdateToken(S, tokenId, changes)),
               echo, tokenId, changes, n - 1)

\* ------------------------------------------------------------ UpdateGuard
Task(kind, tokenId) ==
  [kind |-> kind, tok |-> tokenId, pc |-> "start", target |-> None,
   data |-> ScaleData(0), mv |-> NoMv]

Returned(S, tokenId, how) ==
  [S EXCEPT !.done = Append(@, [tok |-> tokenId, how |-> how, busyAfter |-> tokenId \in S.busy])]

RECURSIVE Proceed(_, _, _)

\* updateTokenSafe up to its await: skipped when busy, else busy.add, tokenDoc.update
\* (the host delivers the pre-change echo of the write before it answers)
updateTokenSafe(S, task, tokenId, updateData, nextpc) ==
  IF tokenId \in S.busy THEN Proceed(Returned(S, tokenId, "skipped"), task, nextpc)
  ELSE LET S1 == [S EXCEPT !.busy = @ \cup {tokenId},
                           !.issued = Append(@, [tok |-> tokenId, data |-> updateData])]
           S2 == FirePre(S1, TRUE, tokenId, updateData, SubCount(S1, "preUpdateToken"))
       IN [S2 EXCEPT !.tasks = Append(@, [task EXCEPT !.pc = nextpc, !.target = tokenId,
                                                      !.data = updateData])]

\* setScaleOnly without the tolerance test
setScaleOnlyAlways(S, task, tokenId, scale, nextpc) ==
  updateTokenSafe(S, task, tokenId, ScaleData(scale), nextpc)

setScaleOnly(S, task, tokenId, scale, nextpc) ==
  IF ~ScaleDiffers(S.docs[tokenId], scale) THEN Proceed(S, task, nextpc)
  ELSE updateTokenSafe(S, task, tokenId, ScaleData(scale), nextpc)

\* ------------------------------------------------------------ LayoutEngine
\* positionNewcomer that leaves the first occupant of a shared cell as it is
positionNewcomerSkipsFirst(S, task) ==
  LET key == task.mv.newKey
  IN IF ~CellHas(S.cells, key) THEN S
     ELSE IF Len(CellGet(S.cells, key)) = 0 THEN S
     ELSE IF ~IsLive(S, task.tok) THEN S
     ELSE IF Len(CellGet(S.cells, key)) = 1
     THEN updateTokenSafe(S, task, task.tok, CenterData(S.docs[task.tok], key), "end")
     ELSE Proceed(S, task, "newcomer")

\* positionNewcomer(movementData.newKey, tokenDoc.id, movementData), to its first await
positionNewcomer(S, task) ==
  LET key == task.mv.newKey
      newcomerTokenId == task.tok
  IN IF ~CellHas(S.cells, key) THEN S
     ELSE IF Len(CellGet(S.cells, key)) = 0 THEN S
     ELSE IF ~IsLive(S, newcomerTokenId) THEN S
     ELSE IF Len(CellGet(S.cells, key)) = 1
     THEN updateTokenSafe(S, task, newcomerTokenId,
                          CenterData(S.docs[newcomerTokenId], key), "end")
     ELSE LET firstTokenId == IF key \in DOMAIN S.firstInCell THEN S.firstInCell[key] ELSE None
          IN IF firstTokenId # None /\ firstTokenId # newcomerTokenId /\ IsLive(S, firstTokenId)
             THEN setScaleOnly(S, task, firstTokenId, PairScale, "newcomer")
             ELSE Proceed(S, task, "newcomer")

\* step 2 of positionNewcomer: the newcomer's own write
positionNewcomer2(S, task) ==
  IF task.mv.has
  THEN updateTokenSafe(S, task, task.tok,
                       NewcomerData(S.docs[task.tok], task.mv, S.centerDistance), "end")
  ELSE setScaleOnly(S, task, task.tok, PairScale, "end")

\* handleUpdateToken that leaves the origin cell alone
handleUpdateTokenNoReset(S, task) ==
  IF IsBusy(S, task.tok) THEN S
  ELSE IF task.tok \notin DOMAIN S.pending THEN S
  ELSE Proceed([S EXCEPT !.pending = Del(@, task.tok)],
               [task EXCEPT !.mv = S.pending[task.tok]], "position")

\* handleUpdateToken that reads the pending record and leaves it in the table
handleUpdateTokenKeepsRecord(S, task) ==
  LET tokenId == task.tok
  IN IF IsBusy(S, tokenId) THEN S
     ELSE IF tokenId \notin DOMAIN S.pending THEN S
     ELSE LET movementData == S.pending[tokenId]
              task1 == [task EXCEPT !.mv = movementData]
          IN IF CellHas(S.cells, movementData.oldKey)
                /\ Len(CellGet(S.cells, movementData.oldKey)) = 1
                /\ IsLive(S, CellGet(S.cells, movementData.oldKey)[1])
             THEN setScaleOnly(S, task1, CellGet(S.cells, movementData.oldKey)[1],
                               SoloScale, "position")
             ELSE Proceed(S, task1, "position")

handleUpdateToken(S, task) ==
  LET tokenId == task.tok
  IN IF IsBusy(S, tokenId) THEN S
     ELSE IF tokenId \notin DOMAIN S.pending THEN S
     ELSE LET movementData == S.pending[tokenId]
              S1 == [S EXCEPT !.pending = Del(@, tokenId)]
              task1 == [task EXCEPT !.mv = movementData]
          IN IF CellHas(S1.cells, movementData.oldKey)
                /\ Len(CellGet(S1.cells, movementData.oldKey)) = 1
                /\ IsLive(S1, CellGet(S1.cells, movementData.oldKey)[1])
             THEN setScaleOnly(S1, task1, CellGet(S1.cells, movementData.oldKey)[1],
                               SoloScale, "position")
             ELSE Proceed(S1, task1, "position")

\* handleCreateToken that writes the pair scale without looking at the current scale
handleCreateTokenRescales(S, task) ==
  LET key == keyFromDoc(S.docs[task.tok])
      S1 == addToCell(S, key, task.tok)
  IN IF Len(CellGet(S1.cells, key)) = 1
     THEN updateTokenSafe(S1, task, task.tok, CenterData(S1.docs[task.tok], key), "end")
     ELSE updateTokenSafe(S1, task, task.tok, ScaleData(PairScale), "end")

handleCreateToken(S, task) ==
  LET key == keyFromDoc(S.docs[task.tok])
      S1 == addToCell(S, key, task.tok)
  IN IF Len(CellGet(S1.cells, key)) = 1
     THEN updateTokenSafe(S1, task, task.tok, CenterData(S1.docs[task.tok], key), "end")
     ELSE setScaleOnly(S1, task, task.tok, PairScale, "end")

\* handleDeleteToken that rescales an occupant whenever any occupant remains
handleDeleteTokenRescalesAny(S, task) ==
  LET key == FindCell(S.cells, task.tok)
  IN IF key = NoKey THEN S
     ELSE LET S1 == removeFromCell(S, key, task.tok)
          IN IF CellHas(S1.cells, key) /\ Len(CellGet(S1.cells, key)) >= 1
                /\ IsLive(S1, CellGet(S1.cells, key)[1])
             THEN setScaleOnly(S1, task, CellGet(S1.cells, key)[1], SoloScale, "end")
             ELSE S1

handleDeleteToken(S, task) ==
  LET key == FindCell(S.cells, task.tok)
  IN IF key = NoKey THEN S
     ELSE LET S1 == removeFromCell(S, key, task.tok)
          IN IF CellHas(S1.cells, key) /\ Len(CellGet(S1.cells, key)) = 1
                /\ IsLive(S1, CellGet(S1.cells, key)[1])
             THEN setScaleOnly(S1, task, CellGet(S1.cells, key)[1], SoloScale, "end")
             ELSE S1

\* a handler from the resume point pc to its next await or its end
Proceed(S, task, pc) ==
  CASE pc = "start" /\ task.kind = "update" -> handleUpdateToken(S, task)
    [] pc = "start" /\ task.kind = "create" -> handleCreateToken(S, task)
    [] pc = "start" /\ task.kind = "delete" -> handleDeleteToken(S, task)
    [] pc = "position" -> positionNewcomer(S, task)
    [] pc = "newcomer" -> positionNewcomer2(S, task)
    [] OTHER -> S

RECURSIVE Fire(_, _, _, _, _)
Fire(S, kind, echo, tokenId, n) ==
  IF n = 0 THEN S
  ELSE Fire(Noted(S, kind, echo, tokenId, Proceed(S, Task(kind, tokenId), "start")),
            kind, echo, tokenId, n - 1)

FirePost(S, echo, tokenId) == Fire(S, "update", echo, tokenId, SubCount(S, "updateToken"))
FireCreate(S, tokenId) == Fire(S, "create", FALSE, tokenId, SubCount(S, "createToken"))
FireDelete(S, tokenId) == Fire(S, "delete", FALSE, tokenId, SubCount(S, "deleteToken"))

\* ------------------------------------------------------------ life cycle
HookKeys == <<"preUpdate", "update", "create", "delete">>
HookNames == <<"preUpdateToken", "updateToken", "createToken", "deleteToken">>

\* Hooks.off that looks the id up under the name it is given
HooksOffByName(r, hookName, hookId) == {h \in r : ~(h.hook = hookName /\ h.id = hookId)}

\* Hooks.off(hookName, hookId): the host drops the subscription with that id
HooksOff(r, hookName, hookId) == {h \in r : h.id # hookId}

\* Hooks.on(hookName, fn): the host returns a fresh id
HooksOn(S, key, hookName) ==
  [S EXCEPT !.reg = @ \cup {[id |-> S.nextId, hook |-> hookName]},
            !.hooks = Put(@, key, S.nextId),
            !.nextId = @ + 1]

RECURSIVE OffAll(_, _, _)
OffAll(r, hs, i) ==
  IF i > Len(HookKeys) THEN r
  ELSE IF HookKeys[i] \in DOMAIN hs
  THEN OffAll(HooksOff(r, HookKeys[i], hs[HookKeys[i]]), hs, i + 1)
  ELSE OffAll(r, hs, i + 1)

\* cleanup that clears the tables and leaves the subscriptions
cleanupKeepsHooks(S) ==
  [S EXCEPT !.cells = <<>>, !.pending = EmptyMap, !.busy = {},
            !.firstInCell = EmptyMap, !.arranged = {}, !.win = TRUE]

\* cleanup that leaves the arranged set as it was
cleanupKeepsArranged(S) ==
  [S EXCEPT !.reg = IF S.win THEN OffAll(@, S.hooks, 1) ELSE @,
            !.cells = <<>>,
            !.pending = EmptyMap,
            !.busy = {},
            !.firstInCell = EmptyMap,
            !.win = TRUE]

cleanup(S) ==
  [S EXCEPT !.reg = IF S.win THEN OffAll(@, S.hooks, 1) ELSE @,
            !.cells = <<>>,
            !.pending = EmptyMap,
            !.busy = {},
            !.firstInCell = EmptyMap,
            !.arranged = {},
            !.win = TRUE]

RECURSIVE bootstrapFrom(_, _)
bootstrapFrom(S, i) ==
  IF i > Len(TokenOrder) THEN S
  ELSE LET tokenId == TokenOrder[i]
       IN IF S.docs[tokenId].st = "live" /\ ~S.docs[tokenId].hidden
          THEN bootstrapFrom(addToCell(S, keyFromDoc(S.docs[tokenId]), tokenId), i + 1)
          ELSE bootstrapFrom(S, i + 1)

\* bootstrap whose loop misses the first token of the scene
bootstrapSkipsFirst(S) == bootstrapFrom(S, 2)

\* bootstrap that lays every token out as if it had just been created
RECURSIVE bootstrapLaysOut(_, _)
bootstrapLaysOut(S, i) ==
  IF i > Len(TokenOrder) THEN S
  ELSE IF S.docs[TokenOrder[i]].st = "live" /\ ~S.docs[TokenOrder[i]].hidden
  THEN bootstrapLaysOut(Proceed(S, Task("create", TokenOrder[i]), "start"), i + 1)
  ELSE bootstrapLaysOut(S, i + 1)

bootstrapArranges(S) == bootstrapLaysOut(S, 1)

bootstrap(S) == bootstrapFrom(S, 1)

RECURSIVE registerFrom(_, _)
registerFrom(S, i) ==
  IF i > Len(HookKeys) THEN S
  ELSE registerFrom(HooksOn(S, HookKeys[i], HookNames[i]), i + 1)

registerHooks(S) == registerFrom(S, 1)

initialize(S) == registerHooks(bootstrap(cleanup(S)))

\* ------------------------------------------------------------ documents
NoDoc == [st |-> "none", x |-> 0, y |-> 0, width |-> TokenWidth, height |-> TokenWidth,
          hidden |-> FALSE, scaleSet |-> FALSE, scale |-> 0, sx |-> 0, sy |-> 0]

\* a token as the host creates it: snapped to a cell, one cell wide and high,
\* texture scale s
HostDoc(col, s, hidden) ==
  [st |-> "live", x |-> col * GridSize, y |-> 0, width |-> TokenWidth, height |-> TokenWidth,
   hidden |-> hidden, scaleSet |-> FALSE, scale |-> 0, sx |-> s, sy |-> s]

\* a scale given to a token by hand, neither the solo nor the pair scale
ManualScale == 70

InitScales == {SoloScale, PairScale, ManualScale}

\* a token deleted before the module was loaded
GoneDoc == [NoDoc EXCEPT !.st = "gone"]

\* the scenes a behaviour starts from: at most two tokens, the first token of the
\* scene in the first cell, the second in the first two cells, none hidden; the
\* third token was deleted from the scene beforehand
InitDocs(t) ==
  IF t = TokenOrder[3] THEN {GoneDoc}
  ELSE {NoDoc} \cup {HostDoc(c, s, FALSE) : c \in (IF t = TokenOrder[1] THEN {0} ELSE {0, 1}),
                                            s \in InitScales}

\* the host applies a partial field set {x, y, scale, texture.scaleX, texture.scaleY}
ApplyUpdate(doc, data) ==
  [doc EXCEPT !.x = IF data.xy THEN data.x ELSE @,
              !.y = IF data.xy THEN data.y ELSE @,
              !.scaleSet = IF data.sc THEN TRUE ELSE @,
              !.scale = IF data.sc THEN data.scale ELSE @,
              !.sx = IF data.sc THEN data.scale ELSE @,
              !.sy = IF data.sc THEN data.scale ELSE @]

\* what a host update proposes: a move to a cell, or a change of another field
HostChanges ==
  {[xy |-> TRUE, x |-> c * GridSize, y |-> 0, sc |-> FALSE, scale |-> 0] : c \in Cols}
  \cup {[xy |-> FALSE, x |-> 0, y |-> 0, sc |-> FALSE, scale |-> 0]}

\* ------------------------------------------------------------ steps
Cur ==
  [docs |-> docs, centerDistance |-> centerDistance,
   reg |-> reg, nextId |-> nextId, hooks |-> hooks, win |-> win,
   cells |-> cells, firstInCell |-> firstInCell, pending |-> pending, busy |-> busy,
   arranged |-> arrangedTokens, tasks |-> tasks,
   issued |-> <<>>, done |-> <<>>, notes |-> <<>>]

Commit(result, name, tokenId, hostEvent) ==
  \E S \in {result} :
  /\ Len(S.tasks) <= MaxTasks
  /\ docs' = S.docs
  /\ reg' = S.reg
  /\ nextId' = S.nextId
  /\ hooks' = S.hooks
  /\ win' = S.win
  /\ cells' = S.cells
  /\ firstInCell' = S.firstInCell
  /\ pending' = S.pending
  /\ busy' = S.busy
  /\ arrangedTokens' = S.arranged
  /\ tasks' = S.tasks
  /\ issued' = S.issued
  /\ done' = S.done
  /\ notes' = S.notes
  /\ act' = [name |-> name, tok |-> tokenId]
  /\ events' = IF hostEvent THEN events + 1 ELSE events
  /\ UNCHANGED centerDistance

Init ==
  /\ docs \in [Tokens -> UNION {InitDocs(t) : t \in Tokens}]
  /\ \A t \in Tokens : docs[t] \in InitDocs(t)
  /\ moduleEnabled \in BOOLEAN
  /\ centerDistance = CenterDistance
  /\ ready = FALSE
  /\ reg = {}
  /\ nextId = 1
  /\ hooks = EmptyMap
  /\ win = FALSE
  /\ cells = <<>>
  /\ firstInCell = EmptyMap
  /\ pending = EmptyMap
  /\ busy = {}
  /\ arrangedTokens = {}
  /\ tasks = <<>>
  /\ hostMoves = EmptyMap
  /\ writes = <<>>
  /\ events = 0
  /\ act = [name |-> "Init", tok |-> None]
  /\ issued = <<>>
  /\ done = <<>>
  /\ notes = <<>>

\* Hooks.once('ready'): initialize when the setting is on
Ready ==
  /\ ~ready
  /\ ready' = TRUE
  /\ Commit(IF moduleEnabled THEN initialize(Cur) ELSE Cur, "Ready", None, FALSE)
  /\ UNCHANGED <<moduleEnabled, hostMoves, writes>>

\* GrappleUtils.initialize() called by the host
CallInitialize ==
  /\ ready /\ events < MaxEvents
  /\ Commit(initialize(Cur), "initialize", None, TRUE)
  /\ UNCHANGED <<moduleEnabled, ready, hostMoves, writes>>

\* GrappleUtils.cleanup() called by the host
CallCleanup ==
  /\ ready /\ events < MaxEvents
  /\ Commit(cleanup(Cur), "cleanup", None, TRUE)
  /\ UNCHANGED <<moduleEnabled, ready, hostMoves, writes>>

\* enableModule() / disableModule() up to `await game.settings.set(...)`
StartWrite(value, name) ==
  /\ ready /\ events < MaxEvents /\ Len(writes) < MaxWrites
  /\ writes' = Append(writes, value)
  /\ Commit(Cur, name, None, TRUE)
  /\ UNCHANGED <<moduleEnabled, ready, hostMoves>>

enableModule == StartWrite(TRUE, "enableModule")

disableModule == StartWrite(FALSE, "disableModule")

\* the scene control button: onClick reads the setting and toggles
ToggleClick == IF moduleEnabled THEN StartWrite(FALSE, "toggleOff") ELSE StartWrite(TRUE, "toggleOn")

\* the settings write lands: the flag changes and the caller resumes
WriteDone(i) ==
  /\ i \in DOMAIN writes
  /\ moduleEnabled' = writes[i]
  /\ writes' = SeqDrop(writes, i)
  /\ Commit(IF writes[i] THEN initialize(Cur) ELSE cleanup(Cur),
            IF writes[i] THEN "enabled" ELSE "disabled", None, FALSE)
  /\ UNCHANGED <<ready, hostMoves>>

\* the settings write is rejected: the catch block, nothing else
WriteFail(i) ==
  /\ i \in DOMAIN writes
  /\ writes' = SeqDrop(writes, i)
  /\ Commit(Cur, "writeFailed", None, FALSE)
  /\ UNCHANGED <<moduleEnabled, ready, hostMoves>>

\* the host creates a token and delivers createToken
HostCreate(t, col, h) ==
  /\ ready /\ events < MaxEvents
  /\ docs[t].st = "none"
  /\ Commit(FireCreate([Cur EXCEPT !.docs[t] = HostDoc(col, SoloScale, h)], t), "create", t, TRUE)
  /\ UNCHANGED <<moduleEnabled, ready, hostMoves, writes>>

\* the host deletes a token and delivers deleteToken
HostDelete(t) ==
  /\ ready /\ events < MaxEvents
  /\ docs[t].st = "live"
  /\ hostMoves' = Del(hostMoves, t)
  /\ Commit(FireDelete([Cur EXCEPT !.docs[t].st = "gone"], t), "delete", t, TRUE)
  /\ UNCHANGED <<moduleEnabled, ready, writes>>

\* a host update of a token starts: preUpdateToken with the proposed changes
HostPreUpdate(t, ch) ==
  /\ ready /\ events < MaxEvents
  /\ docs[t].st = "live"
  /\ t \notin DOMAIN hostMoves
  /\ hostMoves' = Put(hostMoves, t, ch)
  /\ Commit(FirePre(Cur, FALSE, t, ch, SubCount(Cur, "preUpdateToken")), "preUpdate", t, TRUE)
  /\ UNCHANGED <<moduleEnabled, ready, writes>>

\* the host applies its update and delivers updateToken
HostUpdate(t) ==
  /\ t \in DOMAIN hostMoves
  /\ hostMoves' = Del(hostMoves, t)
  /\ Commit(FirePost([Cur EXCEPT !.docs[t] = ApplyUpdate(@, hostMoves[t])], FALSE, t),
            "update", t, FALSE)
  /\ UNCHANGED <<moduleEnabled, ready, writes>>

\* the rest of updateTokenSafe after a successful await
Resolved(S, tokenId) ==
  Returned([S EXCEPT !.arranged = @ \cup {tokenId}, !.busy = @ \ {tokenId}], tokenId, "ok")

\* updateTokenSafe without its finally block
RejectedNoFinally(S, tokenId) == Returned(S, tokenId, "failed")

\* updateTokenSafe whose finally block also records the entity as arranged
RejectedArranges(S, tokenId) ==
  Returned([S EXCEPT !.arranged = @ \cup {tokenId}, !.busy = @ \ {tokenId}], tokenId, "failed")

\* the rest of updateTokenSafe after a rejected await: the finally block
Rejected(S, tokenId) ==
  Returned([S EXCEPT !.busy = @ \ {tokenId}], tokenId, "failed")

\* the host applies a guarded write, delivers its updateToken echo, and the
\* suspended handler resumes
MutationDone(i) ==
  /\ i \in DOMAIN tasks
  /\ docs[tasks[i].target].st = "live"
  /\ LET task == tasks[i]
         S0 == [Cur EXCEPT !.tasks = SeqDrop(@, i),
                           !.docs[task.target] = ApplyUpdate(@, task.data)]
     IN \E S1 \in {FirePost(S0, TRUE, task.target)} :
          \E S2 \in {Resolved(S1, task.target)} :
            Commit(Proceed(S2, task, task.pc), "resolved", task.target, FALSE)
  /\ UNCHANGED <<moduleEnabled, ready, hostMoves, writes>>

\* the host rejects a guarded write (its token no longer exists): updateTokenSafe
\* throws through its handler
MutationFail(i) ==
  /\ i \in DOMAIN tasks
  /\ docs[tasks[i].target].st = "gone"
  /\ Commit(Rejected([Cur EXCEPT !.tasks = SeqDrop(@, i)], tasks[i].target),
            "rejected", tasks[i].target, FALSE)
  /\ UNCHANGED <<moduleEnabled, ready, hostMoves, writes>>

\* the host's token traffic and the answers to guarded writes
TokenStep ==
  \/ \E t \in Tokens, c \in Cols, h \in BOOLEAN : HostCreate(t, c, h)
  \/ \E t \in Tokens : HostDelete(t)
  \/ \E t \in Tokens, ch \in HostChanges : HostPreUpdate(t, ch)
  \/ \E t \in Tokens : HostUpdate(t)
  \/ \E i \in 1..MaxTasks : MutationDone(i)
  \/ \E i \in 1..MaxTasks : MutationFail(i)

\* GrappleUtils driven through its exported entry points
Next ==
  \/ Ready
  \/ CallInitialize
  \/ CallCleanup
  \/ TokenStep

Spec == Init /\ [][Next]_vars

\* GrappleUtils driven by main.js only: chat commands and the scene button
NextMain ==
  \/ Ready
  \/ enableModule
  \/ disableModule
  \/ ToggleClick
  \/ \E i \in 1..MaxWrites : WriteDone(i)
  \/ \E i \in 1..MaxWrites : WriteFail(i)
  \/ TokenStep

SpecMain == Init /\ [][NextMain]_vars

\* no handler is suspended and no host update is between its two notifications
Idle == tasks = <<>> /\ hostMoves = EmptyMap

\* one host event at a time: the host creates, deletes or moves a token only when
\* the handlers of the previous event have run to their end
NextQuiet ==
  \/ Ready
  \/ Idle /\ \E t \in Tokens, c \in Cols, h \in BOOLEAN : HostCreate(t, c, h)
  \/ Idle /\ \E t \in Tokens : HostDelete(t)
  \/ Idle /\ \E t \in Tokens, ch \in HostChanges : HostPreUpdate(t, ch)
  \/ \E t \in Tokens : HostUpdate(t)
  \/ \E i \in 1..MaxTasks : MutationDone(i)

\* the host delivers the post-change of every update it has announced and
\* answers every write it has accepted
SpecQuiet ==
  /\ Init
  /\ [][NextQuiet]_vars
  /\ WF_vars(\E t \in Tokens : HostUpdate(t))
  /\ WF_vars(\E i \in 1..MaxTasks : MutationDone(i))

\* ------------------------------------------------------------ from an empty scene
\* the module enabled over a scene without tokens
InitEmpty ==
  /\ Init
  /\ moduleEnabled
  /\ \A t \in Tokens : docs[t].st # "live"

\* token traffic only: no initialize() or cleanup() after the 'ready' hook
NextEmpty ==
  \/ Ready
  \/ TokenStep

SpecEmpty == InitEmpty /\ [][NextEmpty]_vars

\* ------------------------------------------------------------ setScaleOnly alone
\* scale values around the pair scale and its 0.01 tolerance, and the solo scale
ScaleValues == {PairScale - 2, PairScale, PairScale + 1, PairScale + 3, SoloScale}
ScaleTargets == {SoloScale, PairScale}

\* token documents with any mix of scale fields, with or without a `scale` field
ScaleDocs ==
  {[HostDoc(0, sx, FALSE) EXCEPT !.sy = sy] : sx \in ScaleValues, sy \in ScaleValues}
  \cup {[HostDoc(0, sx, FALSE) EXCEPT !.sy = sy, !.scaleSet = TRUE, !.scale = sc]
         : sx \in ScaleValues, sy \in ScaleValues, sc \in ScaleValues \ {PairScale}}

ScaleCall(scale) == IF scale = SoloScale THEN "setScaleSolo" ELSE "setScalePair"

\* one token in the scene, the module not subscribed
InitScale ==
  /\ docs \in [Tokens -> ScaleDocs \cup {NoDoc}]
  /\ docs[TokenOrder[1]] \in ScaleDocs
  /\ \A i \in 2..Len(TokenOrder) : docs[TokenOrder[i]] = NoDoc
  /\ moduleEnabled = FALSE
  /\ centerDistance = CenterDistance
  /\ ready = TRUE
  /\ reg = {}
  /\ nextId = 1
  /\ hooks = EmptyMap
  /\ win = FALSE
  /\ cells = <<>>
  /\ firstInCell = EmptyMap
  /\ pending = EmptyMap
  /\ busy = {}
  /\ arrangedTokens = {}
  /\ tasks = <<>>
  /\ hostMoves = EmptyMap
  /\ writes = <<>>
  /\ events = 0
  /\ act = [name |-> "Init", tok |-> None]
  /\ issued = <<>>
  /\ done = <<>>
  /\ notes = <<>>

\* GrappleUtils.setScaleOnly(tokenDoc, scale) called on a token of the scene
CallSetScaleOnly(t, scale) ==
  /\ events < MaxEvents
  /\ docs[t].st = "live"
  /\ Commit(setScaleOnly(Cur, Task("scale", t), t, scale, "end"), ScaleCall(scale), t, TRUE)
  /\ UNCHANGED <<moduleEnabled, ready, hostMoves, writes>>

NextScale ==
  \/ \E t \in Tokens, scale \in ScaleTargets : CallSetScaleOnly(t, scale)
  \/ \E i \in 1..MaxTasks : MutationDone(i)

SpecScale == InitScale /\ [][NextScale]_vars

\* ------------------------------------------------------------ tokens off the grid
\* pixel positions on both sides of the origin, on and off cell borders
GridXs == {-150, -100, -30, 0, 49, 50, 130}
GridYs == {-60, 0, 50}
\* token sizes in grid units
Footprints == {1, 2}

\* the host creates a token of any size at any pixel position and delivers
\* createToken
HostCreateAt(t, x, y, w, h) ==
  /\ ready /\ events < MaxEvents
  /\ docs[t].st = "none"
  /\ Commit(FireCreate([Cur EXCEPT !.docs[t] =
                          [HostDoc(0, SoloScale, FALSE) EXCEPT !.x = x, !.y = y,
                                                               !.width = w, !.height = h]], t),
            "create", t, TRUE)
  /\ UNCHANGED <<moduleEnabled, ready, hostMoves, writes>>

NextGrid ==
  \/ Ready
  \/ \E t \in Tokens, x \in GridXs, y \in GridYs, w \in Footprints, h \in Footprints :
       HostCreateAt(t, x, y, w, h)
  \/ \E i \in 1..MaxTasks : MutationDone(i)

SpecGrid == InitEmpty /\ [][NextGrid]_vars

\* ------------------------------------------------------------ tokens created at any scale
\* texture scales of a new token: the solo scale, the pair scale, the pair scale
\* off by the tolerance and by more, a scale set by hand
CreateScales == {SoloScale, PairScale, PairScale + ScaleTolerance,
                 PairScale + 2 * ScaleTolerance, ManualScale}

\* the host creates a token with the texture scale s and delivers createToken
HostCreateScaled(t, col, s) ==
  /\ ready /\ events < MaxEvents
  /\ docs[t].st = "none"
  /\ Commit(FireCreate([Cur EXCEPT !.docs[t] = HostDoc(col, s, FALSE)], t), "create", t, TRUE)
  /\ UNCHANGED <<moduleEnabled, ready, hostMoves, writes>>

NextCreate ==
  \/ Ready
  \/ \E t \in Tokens, c \in Cols, s \in CreateScales : HostCreateScaled(t, c, s)
  \/ \E t \in Tokens : HostDelete(t)
  \/ \E i \in 1..MaxTasks : MutationDone(i)
  \/ \E i \in 1..MaxTasks : MutationFail(i)

SpecCreate == Init /\ [][NextCreate]_vars

\* ------------------------------------------------------------ positionNewcomer alone
\* values of the 'centerDistance' setting: its range is -0.50 to 0.50
CenterDistances == {-50, CenterDistance, 0, 10, 50}

\* the shared cell and its centre
PlaceKey == <<0, 0>>

\* origin centres: the destination centre itself, points along both axes, and
\* points off the axes at a whole distance from the destination centre
PlaceOrigins ==
  {[x |-> centerFromKey(PlaceKey).x + dx, y |-> centerFromKey(PlaceKey).y + dy] :
     <<dx, dy>> \in {<<0, 0>>, <<100, 0>>, <<200, 0>>, <<-100, 0>>, <<0, 100>>, <<0, -200>>,
                     <<60, 80>>, <<-60, -80>>, <<160, -120>>}}

Movement(origin) ==
  [has |-> TRUE, oldKey |-> GetGridPositionFromPixels(origin.x, origin.y), newKey |-> PlaceKey,
   oldCenter |-> origin, newCenter |-> centerFromKey(PlaceKey)]

\* both tokens in the first cell, the module enabled, any centre distance
InitPlace ==
  /\ docs \in [Tokens -> {HostDoc(0, s, FALSE) : s \in {SoloScale, PairScale}} \cup {GoneDoc}]
  /\ \A i \in DOMAIN TokenOrder : (docs[TokenOrder[i]] = GoneDoc) <=> (i = 3)
  /\ moduleEnabled = TRUE
  /\ centerDistance \in CenterDistances
  /\ ready = FALSE
  /\ reg = {}
  /\ nextId = 1
  /\ hooks = EmptyMap
  /\ win = FALSE
  /\ cells = <<>>
  /\ firstInCell = EmptyMap
  /\ pending = EmptyMap
  /\ busy = {}
  /\ arrangedTokens = {}
  /\ tasks = <<>>
  /\ hostMoves = EmptyMap
  /\ writes = <<>>
  /\ events = 0
  /\ act = [name |-> "Init", tok |-> None]
  /\ issued = <<>>
  /\ done = <<>>
  /\ notes = <<>>

\* GrappleUtils.positionNewcomer(key, t, movement) called for an occupant of the
\* shared cell
CallPositionNewcomer(t, origin) ==
  /\ ready /\ events < MaxEvents
  /\ t \notin busy
  /\ Commit(Proceed(Cur, [Task("place", t) EXCEPT !.mv = Movement(origin)], "position"),
            "positionNewcomer", t, TRUE)
  /\ UNCHANGED <<moduleEnabled, ready, hostMoves, writes>>

NextPlace ==
  \/ Ready
  \/ \E t \in Tokens, origin \in PlaceOrigins : CallPositionNewcomer(t, origin)
  \/ \E i \in 1..MaxTasks : MutationDone(i)

SpecPlace == InitPlace /\ [][NextPlace]_vars

\* ------------------------------------------------------------ three tokens
\* scenes of three tokens: the first in the first cell, the others in the first
\* two cells, each at the solo or the pair scale
SharedDocs(t) ==
  {HostDoc(c, s, FALSE) : c \in (IF t = TokenOrder[1] THEN {0} ELSE {0, 1}),
                          s \in {SoloScale, PairScale}}

InitShared ==
  /\ docs \in [Tokens -> UNION {SharedDocs(t) : t \in Tokens}]
  /\ \A t \in Tokens : docs[t] \in SharedDocs(t)
  /\ moduleEnabled = TRUE
  /\ centerDistance = CenterDistance
  /\ ready = FALSE
  /\ reg = {}
  /\ nextId = 1
  /\ hooks = EmptyMap
  /\ win = FALSE
  /\ cells = <<>>
  /\ firstInCell = EmptyMap
  /\ pending = EmptyMap
  /\ busy = {}
  /\ arrangedTokens = {}
  /\ tasks = <<>>
  /\ hostMoves = EmptyMap
  /\ writes = <<>>
  /\ events = 0
  /\ act = [name |-> "Init", tok |-> None]
  /\ issued = <<>>
  /\ done = <<>>
  /\ notes = <<>>

\* the host moves and deletes the tokens of the scene
NextShared ==
  \/ Ready
  \/ \E t \in Tokens : HostDelete(t)
  \/ \E t \in Tokens, ch \in HostChanges : HostPreUpdate(t, ch)
  \/ \E t \in Tokens : HostUpdate(t)
  \/ \E i \in 1..MaxTasks : MutationDone(i)
  \/ \E i \in 1..MaxTasks : MutationFail(i)

SpecShared == InitShared /\ [][NextShared]_vars

\* ------------------------------------------------------------ properties
CellsOf(t) == {i \in DOMAIN cells : SeqHas(cells[i].set, t)}
CellKeys == {cells[i].key : i \in DOMAIN cells}
Members(key) == {CellGet(cells, key)[j] : j \in DOMAIN CellGet(cells, key)}
InitializeActs == {"initialize", "enabled"}
JustInitialized == act.name \in InitializeActs \/ (act.name = "Ready" /\ moduleEnabled)
JustCleaned == act.name \in {"cleanup", "disabled"}
HostNotifications == {"create", "delete", "preUpdate", "update"}
Fields(S) == <<S.cells, S.firstInCell, S.pending, S.busy, S.arranged>>
SubsOf(r, hook) == Cardinality({h \in r : h.hook = hook})
AllHookNames == {HookNames[i] : i \in DOMAIN HookNames}

\* C1: occupancy exclusivity: every entity id is a member of at most one cell's
\* occupant set of state.cells, in every reachable state.
OccupancyExclusive == \A t \in Tokens : Cardinality(CellsOf(t)) <= 1

\* C1 witness: a pre-change notification has just moved an entity from one
\* occupied cell to another while a second cell stays occupied.
OccupancyMoved ==
  /\ act.name = "preUpdate"
  /\ act.tok \in DOMAIN pending
  /\ Len(cells) = 2

\* C2: first-occupant validity: firstInCell has an entry exactly for the keys of
\* cells, no cell maps to an empty set, and each cell's first occupant is one of
\* its occupants.
FirstOccupantValid ==
  /\ DOMAIN firstInCell = CellKeys
  /\ \A i \in DOMAIN cells : Len(cells[i].set) > 0
  /\ \A k \in CellKeys : firstInCell[k] \in Members(k)

\* C2 witness: A and B were bootstrapped into one cell (A first), A has just been
\* deleted, and B is now the cell's first occupant.
FirstOccupantReassigned ==
  /\ events = 1
  /\ act = [name |-> "delete", tok |-> "A"]
  /\ docs["B"].st = "live"
  /\ docs["A"].x = docs["B"].x
  /\ cells = <<[key |-> keyFromDoc(docs["B"]), set |-> <<"B">>]>>
  /\ firstInCell[keyFromDoc(docs["B"])] = "B"

\* C3 as stated: after any call of updateTokenSafe completes (succeeded, failed or
\* skipped because the entity was busy) the entity is not in state.busy.
GuardReleasedAlways == \A i \in DOMAIN done : ~done[i].busyAfter

\* C3 as amended: after a call of updateTokenSafe that was not skipped completes,
\* by success or by failure, the entity is not in state.busy.
GuardReleased == \A i \in DOMAIN done : done[i].how # "skipped" => ~done[i].busyAfter

\* C3 witness: a guarded write has just failed and its call returned.
GuardReleasedOnFailure == \E i \in DOMAIN done : done[i].how = "failed"

\* C4: mutual exclusion of guarded writes: at most one mutation issued through
\* updateTokenSafe is in flight for any one entity, in every reachable state.
OneWriteInFlight ==
  \A t \in Tokens : Cardinality({i \in DOMAIN tasks : tasks[i].target = t}) <= 1

InitializeSilent == JustInitialized => issued = <<>>

\* C7 witness: initialize() has just run over a scene with two entities in one
\* cell.
InitializeOverSharedCell ==
  /\ JustInitialized
  /\ \E i \in DOMAIN cells : Len(cells[i].set) >= 2

NoSubscriptionLeak ==
  /\ \A n \in AllHookNames : SubsOf(reg, n) <= 1
  /\ \A h \in reg : h.hook \in AllHookNames
  /\ JustInitialized => \A n \in AllHookNames : SubsOf(reg, n) = 1
  /\ JustCleaned => reg = {}
  /\ \A once \in {initialize(Cur)} : \A twice \in {initialize(once)} :
       /\ Fields(twice) = Fields(once)
       /\ \A n \in AllHookNames : SubsOf(twice.reg, n) = 1 /\ SubsOf(once.reg, n) = 1
       /\ Cardinality(twice.reg) = Cardinality(once.reg)

\* C9 witness: initialize() has just run for the second time at least, over the
\* subscriptions of an earlier initialization.
Reinitialized == act.name = "initialize" /\ nextId > 5 /\ cells # <<>>

\* C6: no feedback loop: with one host event at a time, the pre-change and
\* post-change echoes of the module's own guarded writes change no table and issue
\* no mutation, at most one guarded write is in flight, and the system always
\* comes back to a quiescent state (no handler suspended, busy empty).
EchoSilent ==
  /\ \A i \in DOMAIN notes : notes[i].echo => ~notes[i].changed /\ notes[i].issued = 0
  /\ Len(tasks) <= 1

Quiescent == Idle /\ busy = {}

NoFeedbackLoop == []EchoSilent /\ []<>Quiescent

\* C6 witness: the post-change echo of the newcomer's own position write has just
\* reached the handler while the newcomer was guarded, and the system is
\* quiescent again.
EchoArrivedQuiescent ==
  /\ act.name = "resolved"
  /\ Quiescent
  /\ docs[act.tok].scaleSet /\ docs[act.tok].x % GridSize # 0
  /\ \E i \in DOMAIN notes : notes[i].echo /\ notes[i].busy /\ notes[i].kind = "update"

\* C10: enable flag gating: with no enableModule/disableModule call awaiting its
\* settings write, the four subscriptions are active exactly when moduleEnabled is
\* true; a host notification reaches a handler exactly when the flag is true; and
\* while the flag is false no notification (host or echo) reaches a handler,
\* changes a table or issues a mutation.
FlagMatchesSubscriptions ==
  /\ ready /\ writes = <<>> /\ moduleEnabled => \A n \in AllHookNames : SubsOf(reg, n) = 1
  /\ ready /\ writes = <<>> /\ ~moduleEnabled => reg = {}
  /\ act.name \in HostNotifications => (notes # <<>> <=> moduleEnabled)
  /\ ~moduleEnabled => notes = <<>>

FlagGatesStep ==
  ~moduleEnabled' /\ act'.name \in HostNotifications
    => /\ UNCHANGED <<cells, firstInCell, pending, busy, arrangedTokens>>
       /\ issued' = <<>>

EnableFlagGates == []FlagMatchesSubscriptions /\ [][FlagGatesStep]_vars

\* C10 witness: the module was initialized and then disabled, an enableModule call
\* is awaiting its write, and the host has just created a token.
NotifiedWhileDisabled ==
  /\ ~moduleEnabled
  /\ nextId > 1
  /\ writes = <<TRUE>>
  /\ act.name = "create"

\* the handler of the host notification of this step ran (the module is subscribed)
Handled(kind) == \E i \in DOMAIN notes : notes[i].kind = kind /\ ~notes[i].echo

\* C11: solo entry: when an entity is created at a position mapping to a cell with
\* no other occupant, exactly one mutation is issued, for that entity, setting its
\* position to the cell's centre minus half its solo-scale footprint and its scale
\* to the solo scale.
SoloEntry ==
  act.name = "create" /\ Handled("create")
    /\ CellHas(cells, keyFromDoc(docs[act.tok]))
    /\ CellGet(cells, keyFromDoc(docs[act.tok])) = <<act.tok>>
  => LET center == centerFromKey(keyFromDoc(docs[act.tok]))
         half == (TokenWidth * GridSize * SoloScale) \div 200
     IN issued = <<[tok |-> act.tok,
                    data |-> [xy |-> TRUE, x |-> center.x - half, y |-> center.y - half,
                              sc |-> TRUE, scale |-> SoloScale]]>>

\* C11 witness: an entity has just been created alone in the second cell while
\* another cell is occupied, and its write is in flight.
SoloEntryDone ==
  /\ act.name = "create" /\ Handled("create")
  /\ keyFromDoc(docs[act.tok]) = <<1, 0>>
  /\ Len(cells) = 2
  /\ \E i \in DOMAIN tasks : tasks[i].target = act.tok /\ tasks[i].data.x = GridSize

AtScale(doc, scale) == ~ScaleDiffers(doc, scale)

\* the post-change of b's move into the cell where a was alone at solo scale
PairingPost(a, b) ==
  /\ a # b /\ tasks = <<>> /\ busy = {}
  /\ b \in DOMAIN pending
  /\ CellHas(cells, pending[b].newKey)
  /\ CellGet(cells, pending[b].newKey) = <<a, b>>
  /\ AtScale(docs[a], SoloScale)
  /\ act'.name = "update" /\ act'.tok = b /\ Handled("update")'

\* the answer to a's scale write, the handler of b's move resuming
PairingFirstDone(a, b) ==
  /\ a # b /\ Len(tasks) = 1
  /\ tasks[1].kind = "update" /\ tasks[1].tok = b /\ tasks[1].target = a
  /\ tasks[1].pc = "newcomer" /\ tasks[1].mv.has
  /\ act'.name = "resolved" /\ act'.tok = a

\* the answer to b's own position write in the shared cell
PairingNewcomerDone(a, b) ==
  /\ a # b /\ Len(tasks) = 1
  /\ tasks[1].kind = "update" /\ tasks[1].tok = b /\ tasks[1].target = b
  /\ tasks[1].pc = "end" /\ tasks[1].mv.has
  /\ CellHas(cells, tasks[1].mv.newKey)
  /\ CellGet(cells, tasks[1].mv.newKey) = <<a, b>>
  /\ act'.name = "resolved" /\ act'.tok = b

PairingStep ==
  \A a, b \in Tokens :
    /\ PairingPost(a, b) =>
         /\ issued' = <<[tok |-> a, data |-> ScaleData(PairScale)]>>
         /\ Len(tasks') = 1 /\ tasks'[1].pc = "newcomer"
    /\ PairingFirstDone(a, b) =>
         /\ docs'[a].x = docs[a].x /\ docs'[a].y = docs[a].y
         /\ AtScale(docs'[a], PairScale)
         /\ Len(issued') = 1 /\ issued'[1].tok = b /\ issued'[1].data.xy
    /\ PairingNewcomerDone(a, b) =>
         /\ docs'[b].x = tasks[1].data.x /\ docs'[b].y = tasks[1].data.y
         /\ AtScale(docs'[b], PairScale) /\ AtScale(docs'[a], PairScale)
         /\ tasks' = <<>> /\ busy' = {} /\ issued' = <<>>

\* C12: pairing: with A alone in a cell at solo scale and B moving into it from
\* another cell (pre-change then post-change, no other event), the post-change
\* issues one scale-only write of the pair scale for A; when it is answered A is
\* at pair scale where it was and one position write is issued for B; when that is
\* answered B is where the write put it, at pair scale, and nothing is in flight.
Pairing == [][PairingStep]_vars

\* C12 witness: B's position write has just been answered in the cell B moved
\* into; A, written by the module, is at pair scale on its snapped position, B is
\* at pair scale off the grid, and nothing is in flight.
PairingDone ==
  /\ act = [name |-> "resolved", tok |-> "B"]
  /\ Quiescent
  /\ cells = <<[key |-> <<1, 0>>, set |-> <<"A", "B">>]>>
  /\ docs["A"].scaleSet /\ docs["A"].scale = PairScale /\ docs["A"].x = GridSize
  /\ docs["B"].scale = PairScale /\ docs["B"].x % GridSize # 0

\* the post-change of b's move out of the cell it shared with a, a at pair scale
DeparturePost(a, b) ==
  /\ a # b /\ tasks = <<>> /\ busy = {}
  /\ b \in DOMAIN pending
  /\ CellHas(cells, pending[b].oldKey)
  /\ CellGet(cells, pending[b].oldKey) = <<a>>
  /\ AtScale(docs[a], PairScale)
  /\ act'.name = "update" /\ act'.tok = b /\ Handled("update")'

\* the answer to the scale reset of a, the handler of b's move resuming
DepartureResetDone(a, b) ==
  /\ a # b /\ Len(tasks) = 1
  /\ tasks[1].kind = "update" /\ tasks[1].tok = b /\ tasks[1].target = a
  /\ tasks[1].pc = "position"
  /\ act'.name = "resolved" /\ act'.tok = a

DepartureStep ==
  \A a, b \in Tokens :
    /\ DeparturePost(a, b) =>
         /\ issued' = <<[tok |-> a, data |-> ScaleData(SoloScale)]>>
         /\ Len(tasks') = 1 /\ tasks'[1].pc = "position"
    /\ DepartureResetDone(a, b) =>
         /\ docs'[a].x = docs[a].x /\ docs'[a].y = docs[a].y
         /\ AtScale(docs'[a], SoloScale)
         /\ \A i \in DOMAIN issued' : issued'[i].tok # a

\* C13: departure: when a cell holds exactly {A, B}, A at pair scale, and B moves
\* to another cell (pre-change then post-change, no other event), the post-change
\* issues one scale-only write of the solo scale for A, and when it is answered A
\* is at solo scale where it was.
Departure == [][DepartureStep]_vars

\* C13 witness: A, laid out off the grid as a newcomer, was left alone by B and
\* its scale reset has just been answered: A is at solo scale on the same
\* off-grid position.
DepartureDone ==
  /\ act = [name |-> "resolved", tok |-> "A"]
  /\ \E i \in DOMAIN cells : cells[i].set = <<"A">>
  /\ docs["A"].scaleSet /\ docs["A"].scale = SoloScale
  /\ docs["A"].x % GridSize # 0
  /\ Len(tasks) = 1 /\ tasks[1].tok = "B" /\ tasks[1].target = "B"

DeletionToEmptyStep ==
  \A t \in Tokens : \A i \in DOMAIN cells :
    cells[i].set = <<t>> /\ act'.name = "delete" /\ act'.tok = t /\ Handled("delete")'
      => /\ ~CellHas(cells', cells[i].key)
         /\ cells[i].key \notin DOMAIN firstInCell'
         /\ cells' = CellDelete(cells, cells[i].key)
         /\ issued' = <<>>

\* C14: deletion to empty: when the only occupant of a cell is deleted, the cell
\* and its first-occupant record leave the tables, the other cells stay as they
\* are, and no mutation is issued.
DeletionToEmpty == [][DeletionToEmptyStep]_vars

\* C14 witness: A and B were bootstrapped into different cells and B, alone in
\* its cell, has just been deleted: only A's cell is left.
DeletedLastOccupant ==
  /\ events = 1
  /\ act = [name |-> "delete", tok |-> "B"] /\ Handled("delete")
  /\ docs["B"].x = GridSize /\ docs["A"].st = "live"
  /\ cells = <<[key |-> <<0, 0>>, set |-> <<"A">>]>>
  /\ DOMAIN firstInCell = {<<0, 0>>}

IdempotentScaleStep ==
  \A t \in Tokens :
    /\ \A scale \in ScaleTargets :
         act'.name = ScaleCall(scale) /\ act'.tok = t =>
           /\ Len(issued') <= 1
           /\ \A i \in DOMAIN issued' : issued'[i] = [tok |-> t, data |-> ScaleData(scale)]
           /\ AtScale(docs[t], scale) => issued' = <<>>
    /\ \A i \in DOMAIN tasks :
         tasks[i].kind = "scale" /\ tasks[i].target = t
         /\ act'.name = "resolved" /\ act'.tok = t /\ tasks' = SeqDrop(tasks, i) =>
           /\ docs'[t].scaleSet /\ docs'[t].scale = tasks[i].data.scale
           /\ docs'[t].sx = tasks[i].data.scale /\ docs'[t].sy = tasks[i].data.scale
           /\ AtScale(docs'[t], tasks[i].data.scale)

\* C15: idempotent scale write: a call of setScaleOnly issues at most one
\* mutation, of the three scale fields at the target; it issues none whenever the
\* entity's approximate scale is within 0.01 of the target; and the answered write
\* leaves the three fields at the target, so that a second call in a row with the
\* same target issues none.
IdempotentScale == [][IdempotentScaleStep]_vars

\* C15 witness: setScaleOnly(A, pair) was called on a token whose scale write to
\* the pair scale had been answered, and it issued nothing.
ScaleSetTwice ==
  /\ act = [name |-> "setScalePair", tok |-> "A"]
  /\ "A" \in arrangedTokens
  /\ docs["A"].scaleSet /\ docs["A"].scale = PairScale
  /\ docs["A"].sx = PairScale /\ docs["A"].sy = PairScale
  /\ tasks = <<>> /\ issued = <<>>
  /\ events >= 2

\* a token whose scale was never written by the module and is neither 1.0 nor the
\* pair scale
ManuallyScaled(t) ==
  /\ docs[t].st = "live" /\ ~docs[t].scaleSet
  /\ ~AtScale(docs[t], SoloScale) /\ ~AtScale(docs[t], PairScale)

\* C16: manually scaled tokens are preserved: no handler issues a mutation for a
\* token whose scale was set by hand to a value other than 1.0.
ManualScalePreserved == \A i \in DOMAIN issued : ~ManuallyScaled(issued[i].tok)

\* the handlers of t's creation or move have run to their end, every write they
\* issued has been answered, and t is in a cell with another occupant
EnteredShared(t) ==
  /\ Quiescent /\ pending = EmptyMap
  /\ act.tok = t /\ act.name \in {"create", "resolved"}
  /\ \E i \in DOMAIN cells : SeqHas(cells[i].set, t) /\ Len(cells[i].set) >= 2

\* C17: all tokens sharing a hex use the pair scale: after an entity has entered,
\* by move or by creation, a cell that already held an occupant, and all resulting
\* mutations have completed, every occupant of that cell has the pair scale.
PairScaleForAll ==
  \A t \in Tokens : EnteredShared(t) =>
    \A i \in DOMAIN cells : SeqHas(cells[i].set, t) =>
      \A j \in DOMAIN cells[i].set : AtScale(docs[cells[i].set[j]], PairScale)

\* C18: a token alone in a hex returns to solo scale: starting from an empty
\* scene, in every quiescent state (busy and pending empty, no mutation in flight)
\* an entity that is the only occupant of its cell has the solo scale.
SoloWhenAlone ==
  Quiescent /\ pending = EmptyMap =>
    \A i \in DOMAIN cells :
      Len(cells[i].set) = 1 /\ docs[cells[i].set[1]].st = "live"
        => AtScale(docs[cells[i].set[1]], SoloScale)

\* t is the recorded first occupant of a cell holding two or more occupants
FirstOfShared(t) ==
  \E i \in DOMAIN cells :
    /\ Len(cells[i].set) >= 2
    /\ cells[i].key \in DOMAIN firstInCell
    /\ firstInCell[cells[i].key] = t

\* C19: first-token priority: no position (x/y) mutation is issued for an entity
\* that is the recorded first occupant of a cell holding two or more occupants.
FirstOccupantStays ==
  \A i \in DOMAIN issued : issued[i].data.xy => ~FirstOfShared(issued[i].tok)

\* the solo-scale reset of the occupant left in the origin cell fails while the
\* handler of the mover, alone in its destination cell, awaits it
ResetFails(i) ==
  /\ i \in DOMAIN tasks
  /\ tasks[i].kind = "update" /\ tasks[i].pc = "position"
  /\ tasks[i].tok # tasks[i].target
  /\ \A j \in DOMAIN tasks : tasks[j].target = tasks[i].target => j = i
  /\ docs[tasks[i].target].st = "gone"
  /\ docs[tasks[i].tok].st = "live" /\ tasks[i].tok \notin busy
  /\ CellHas(cells, tasks[i].mv.newKey)
  /\ CellGet(cells, tasks[i].mv.newKey) = <<tasks[i].tok>>
  /\ act'.name = "rejected" /\ act'.tok = tasks[i].target

FailureIsolatedStep ==
  \A i \in 1..MaxTasks :
    ResetFails(i) => \E j \in DOMAIN issued' : issued'[j].tok = tasks[i].tok

\* C20: failure isolation: when the solo-scale reset of the occupant remaining in
\* the origin cell fails, the mover is still laid out in its destination cell: a
\* mutation is issued for it.
FailureIsolated == [][FailureIsolatedStep]_vars

\* the host rejects the write that the i-th suspended handler awaits
WriteRejected(i) ==
  /\ i \in DOMAIN tasks
  /\ act'.name = "rejected" /\ act'.tok = tasks[i].target
  /\ tasks' = SeqDrop(tasks, i)

MutationFailureStep ==
  \A i \in 1..MaxTasks :
    WriteRejected(i) =>
      /\ done' = <<[tok |-> tasks[i].target, how |-> "failed", busyAfter |-> FALSE]>>
      /\ busy' = busy \ {tasks[i].target}
      /\ arrangedTokens' = arrangedTokens
      /\ issued' = <<>> /\ notes' = <<>>
      /\ UNCHANGED <<docs, cells, firstInCell, pending>>

\* C21: mutation-sink failure: when the host rejects a guarded write, the call of
\* updateTokenSafe fails through the handler that awaited it (the handler takes no
\* further step), the entity leaves the busy set, it is not added to
\* arrangedTokens, and no mutation is issued in answer (the write is not retried).
MutationFailure == [][MutationFailureStep]_vars

\* C21 witness: the write awaited by the handler of another entity's move has just
\* been rejected: the handler is gone, nothing is in flight, and the target is
\* neither busy nor arranged.
MutationFailed ==
  /\ act.name = "rejected"
  /\ done = <<[tok |-> act.tok, how |-> "failed", busyAfter |-> FALSE]>>
  /\ act.tok \notin busy /\ act.tok \notin arrangedTokens
  /\ tasks = <<>> /\ issued = <<>>
  /\ \E t \in Tokens \ {act.tok} : docs[t].st = "live" /\ CellsOf(t) # {}

\* the post-change notification of the host update of t announced by hostMoves[t]
HostPost(t) ==
  /\ t \in DOMAIN hostMoves
  /\ act'.name = "update" /\ act'.tok = t /\ Handled("update")'

\* the pending record of t is the one the pre-change of the same host update made
FromSamePair(t) ==
  /\ hostMoves[t].xy
  /\ pending[t].newKey = keyFromXY(hostMoves[t].x, hostMoves[t].y, docs[t].width, docs[t].height)

PendingFreshStep ==
  \A t \in Tokens :
    HostPost(t) =>
      /\ t \notin DOMAIN pending'
      /\ t \in DOMAIN pending /\ t \notin busy => FromSamePair(t)

\* C22: pending records are never stale: the post-change notification of a host
\* update leaves no pending record for its entity, and a record it acts on was
\* made by the pre-change notification of the same update, whatever guarded
\* writes other handlers have started in between.
PendingFresh == [][PendingFreshStep]_vars

\* the top-left position of the footprint whose centre is the given point
TopLeftOf(center, width, height) ==
  [x |-> center.x - (width * GridSize) \div 2, y |-> center.y - (height * GridSize) \div 2]

\* C23: round trip: for every pixel position P and footprint size S of the tokens
\* of the scene, keyFromXY applied to the top-left position whose footprint centre
\* is centerFromKey(keyFromXY(P, S)) yields the same cell key as keyFromXY(P, S).
RoundTrip ==
  \A t \in Tokens : docs[t].st = "live" =>
    LET d == docs[t]
        key == keyFromXY(d.x, d.y, d.width, d.height)
        p == TopLeftOf(centerFromKey(key), d.width, d.height)
    IN keyFromXY(p.x, p.y, d.width, d.height) = key

\* C23 witness: a token two cells wide, created off the grid left of the origin,
\* has been centred by the module on the cell of its key: it stands on the
\* top-left position computed from that cell's centre, off the cell borders.
RoundTripCentred ==
  /\ act.name = "resolved"
  /\ \E t \in Tokens :
       /\ act.tok = t /\ docs[t].width = 2 /\ docs[t].height = 1
       /\ docs[t].x < 0 /\ docs[t].x % GridSize # 0
       /\ FindCell(cells, t) = keyFromDoc(docs[t])
       /\ docs[t].x = TopLeftOf(centerFromKey(keyFromDoc(docs[t])), 2, 1).x

\* the creation of t, delivered to the handler, in a cell the table holds already
CreatedInOccupied(t) ==
  /\ act'.name = "create" /\ act'.tok = t /\ Handled("create")'
  /\ docs[t].st = "none"
  /\ CellHas(cells, keyFromDoc(docs'[t]))

CreationInOccupiedStep ==
  \A t \in Tokens :
    CreatedInOccupied(t) =>
      LET key == keyFromDoc(docs'[t])
      IN /\ \A i \in DOMAIN issued' : ~issued'[i].data.xy
         /\ issued' = IF AtScale(docs'[t], PairScale) THEN <<>>
                      ELSE <<[tok |-> t, data |-> ScaleData(PairScale)]>>
         /\ firstInCell'[key] = firstInCell[key]
         /\ CellGet(cells', key) = Append(CellGet(cells, key), t)

\* C24: creation into an occupied cell: when an entity is created in a cell that
\* already has an occupant, no position mutation is issued for any entity, one
\* scale-only write of the pair scale is issued for the new entity exactly when
\* its scale differs from the pair scale by more than 0.01, and the cell's first
\* occupant stays the same.
CreationInOccupied == [][CreationInOccupiedStep]_vars

\* C24 witness: B has just been created, 0.01 above the pair scale, in the cell
\* where A stands: nothing was issued and A is still the first occupant.
CreatedWithinTolerance ==
  /\ act = [name |-> "create", tok |-> "B"] /\ Handled("create")
  /\ docs["B"].sx = PairScale + ScaleTolerance /\ ~docs["B"].scaleSet
  /\ cells = <<[key |-> <<0, 0>>, set |-> <<"A", "B">>]>>
  /\ firstInCell[<<0, 0>>] = "A"
  /\ issued = <<>> /\ tasks = <<>>

\* the write that centres doc in the cell key at solo scale: the cell's centre
\* minus half the solo-scale footprint
CenteredAt(doc, key) ==
  [xy |-> TRUE,
   x |-> centerFromKey(key).x - (doc.width * GridSize * SoloScale) \div 200,
   y |-> centerFromKey(key).y - (doc.height * GridSize * SoloScale) \div 200,
   sc |-> TRUE, scale |-> SoloScale]

\* the origin cell of t's pending move holds one occupant whose scale the handler
\* will reset with a write of its own
OriginReset(t) ==
  /\ CellHas(cells, pending[t].oldKey)
  /\ Len(CellGet(cells, pending[t].oldKey)) = 1
  /\ \E r \in Tokens :
       /\ CellGet(cells, pending[t].oldKey) = <<r>>
       /\ docs[r].st = "live" /\ r \notin busy
       /\ ~AtScale(docs[r], SoloScale)

\* the post-change of t's move reaches the handler, t not busy, its record in
\* place, t the only occupant of the destination cell
MoveToEmptyPost(t) ==
  /\ HostPost(t)
  /\ t \in DOMAIN pending /\ t \notin busy
  /\ CellHas(cells, pending[t].newKey)
  /\ CellGet(cells, pending[t].newKey) = <<t>>

\* the reset of the origin cell's occupant, awaited by task i, is answered and the
\* handler of t's move resumes, t still the only occupant of the destination cell
MoveToEmptyResumed(t, i) ==
  /\ i \in DOMAIN tasks
  /\ tasks[i].kind = "update" /\ tasks[i].tok = t /\ tasks[i].pc = "position"
  /\ tasks[i].target # t
  /\ \A j \in DOMAIN tasks : tasks[j].target = tasks[i].target => j = i
  /\ docs[t].st = "live"
  /\ CellHas(cells, tasks[i].mv.newKey)
  /\ CellGet(cells, tasks[i].mv.newKey) = <<t>>
  /\ act'.name = "resolved" /\ act'.tok = tasks[i].target

MoveToEmptyStep ==
  \A t \in Tokens :
    /\ MoveToEmptyPost(t) /\ ~OriginReset(t) =>
         issued' = <<[tok |-> t, data |-> CenteredAt(docs'[t], pending[t].newKey)]>>
    /\ MoveToEmptyPost(t) /\ OriginReset(t) =>
         /\ Len(issued') = 1 /\ issued'[1].tok # t /\ issued'[1].data = ScaleData(SoloScale)
         /\ Len(tasks') = Len(tasks) + 1
    /\ \A i \in 1..MaxTasks : MoveToEmptyResumed(t, i) =>
         \E j \in DOMAIN issued' :
           issued'[j] = [tok |-> t, data |-> CenteredAt(docs'[t], tasks[i].mv.newKey)]

\* C25: move into an empty cell: when the post-change notification of a move from
\* O to D is handled and the mover is the only occupant of D, a write is issued for
\* the mover (at once, or when the awaited scale reset of the occupant left in O is
\* answered) that sets its position to the centre of D minus half its solo-scale
\* footprint and its scale to the solo scale, as for a creation.
MoveToEmpty == [][MoveToEmptyStep]_vars

\* the newcomer's own position write, awaited by a call of positionNewcomer
PlaceWrite(i) ==
  /\ tasks[i].kind = "place" /\ tasks[i].target = tasks[i].tok
  /\ tasks[i].pc = "end" /\ tasks[i].data.xy

\* the centre of the pair-scale footprint that the write puts at its x and y
TargetCenter(i) ==
  [x |-> tasks[i].data.x + (docs[tasks[i].tok].width * GridSize * PairScale) \div 200,
   y |-> tasks[i].data.y + (docs[tasks[i].tok].height * GridSize * PairScale) \div 200]

\* C26: newcomer placement: the mover's target centre is the midpoint M of the
\* origin and destination centres, plus the unit vector from the destination
\* centre D toward M times (grid size x centre distance), plus (grid size x
\* horizontal offset, grid size x vertical offset); a zero-length direction is
\* divided by 1; a negative centre distance moves the target from M toward D, a
\* positive one away from D.
NewcomerPlacement ==
  \A i \in DOMAIN tasks : PlaceWrite(i) =>
    LET O == tasks[i].mv.oldCenter
        D == tasks[i].mv.newCenter
        Mx == (O.x + D.x) \div 2
        My == (O.y + D.y) \div 2
        dirX == Mx - D.x
        dirY == My - D.y
        len == CHOOSE n \in 0..(Abs(dirX) + Abs(dirY)) : n * n = dirX * dirX + dirY * dirY
        divisor == IF len = 0 THEN 1 ELSE len
        push == (GridSize * centerDistance) \div 100
        radX == TargetCenter(i).x - Mx - (GridSize * NEWCOMER_OFFSET_GRID_FRAC_X) \div 100
        radY == TargetCenter(i).y - My - (GridSize * NEWCOMER_OFFSET_GRID_FRAC_Y) \div 100
        towardD == radX * (D.x - Mx) + radY * (D.y - My)
    IN /\ radX * divisor = dirX * push
       /\ radY * divisor = dirY * push
       /\ radX * radX + radY * radY = (IF len = 0 THEN 0 ELSE push * push)
       /\ centerDistance < 0 /\ len > 0 => towardD > 0
       /\ centerDistance > 0 /\ len > 0 => towardD < 0

\* C26 witness: with a negative centre distance other than the default, two
\* position writes are in flight: one for a newcomer that came from a cell off
\* both axes, one for a newcomer whose origin centre is the destination centre.
NewcomerPlacedOffAxis ==
  /\ centerDistance = -50
  /\ \E i \in DOMAIN tasks :
       /\ PlaceWrite(i)
       /\ tasks[i].mv.oldCenter.x # tasks[i].mv.newCenter.x
       /\ tasks[i].mv.oldCenter.y # tasks[i].mv.newCenter.y
  /\ \E i \in DOMAIN tasks :
       /\ PlaceWrite(i)
       /\ tasks[i].mv.oldCenter = tasks[i].mv.newCenter

\* the host's pre-change notification for t reaches the handler in this step
HostPre(t) == act'.name = "preUpdate" /\ act'.tok = t /\ Handled("pre")'

\* the origin cell of t: its cell in the table, else the cell of its position
OriginKey(t) ==
  IF FindCell(cells, t) # NoKey THEN FindCell(cells, t) ELSE keyFromDoc(docs[t])

\* the cell of the position that the changes ch propose for t
DestinationKey(t, ch) == keyFromXY(ch.x, ch.y, docs[t].width, docs[t].height)

PreChangeFilteredStep ==
  /\ \A t \in Tokens :
       HostPre(t) /\ (\/ t \in busy
                      \/ ~hostMoves'[t].xy
                      \/ OriginKey(t) = DestinationKey(t, hostMoves'[t]))
         => /\ UNCHANGED <<cells, firstInCell, pending, busy, arrangedTokens>>
            /\ issued' = <<>>
  /\ \A i \in DOMAIN notes' :
       notes'[i].kind = "pre" /\ notes'[i].busy => ~notes'[i].changed /\ notes'[i].issued = 0

\* C27: pre-change filtering: a pre-change notification leaves cells, firstInCell,
\* pending, busy and arrangedTokens unchanged (and issues nothing) when the entity
\* is busy, when the proposed changes hold neither x nor y, or when the origin
\* cell equals the destination cell.
PreChangeFiltered == [][PreChangeFilteredStep]_vars

\* C27 witness: B, laid out off the grid as a newcomer in the first cell, is
\* moved by the host to the corner of the same cell: the pre-change notification
\* reached the handler and no pending record was made.
PreChangeSameCell ==
  /\ act = [name |-> "preUpdate", tok |-> "B"] /\ Handled("pre")
  /\ "B" \notin busy
  /\ docs["B"].x % GridSize # 0
  /\ hostMoves["B"].xy /\ hostMoves["B"].x = 0
  /\ FindCell(cells, "B") = <<0, 0>> /\ keyFromDoc(docs["B"]) = <<0, 0>>
  /\ pending = EmptyMap

\* the centre of the cell key of the host grid
CellCenter(key) ==
  [x |-> key[1] * GridSize + GridSize \div 2, y |-> key[2] * GridSize + GridSize \div 2]

\* the host's pre-change for t, not busy, proposes a position in another cell
PreChangeToOtherCell(t) ==
  /\ HostPre(t)
  /\ t \notin busy
  /\ hostMoves'[t].xy
  /\ OriginKey(t) # DestinationKey(t, hostMoves'[t])

PreChangeTransitionStep ==
  \A t \in Tokens :
    PreChangeToOtherCell(t) =>
      LET O == OriginKey(t)
          D == DestinationKey(t, hostMoves'[t])
      IN /\ \A i \in DOMAIN cells' : cells'[i].key = O => ~SeqHas(cells'[i].set, t)
         /\ CellHas(cells', D) /\ SeqHas(CellGet(cells', D), t)
         /\ FindCell(cells', t) = D
         /\ t \in DOMAIN pending'
         /\ pending'[t] = [has |-> TRUE, oldKey |-> O, newKey |-> D,
                           oldCenter |-> CellCenter(O), newCenter |-> CellCenter(D)]
         /\ t \in DOMAIN hostMoves' /\ docs'[t] = docs[t]

\* C28: pre-change transition: when a pre-change notification for a non-busy
\* entity E proposes a position in a cell D other than its origin cell O (O from
\* the table if E is recorded there, else from E's position), then at the end of
\* the pre-change handling, before the update is applied and the post-change
\* notification delivered, E is out of O, E is a member of D, and pending[E] holds
\* O, D and the centres of both cells.
PreChangeTransition == [][PreChangeTransitionStep]_vars

\* C28 witness: B, hidden, was created and then left out of the table by a new
\* initialize() while its first write was still in flight; the host has just
\* announced its move to another cell: the origin comes from B's position.
PreChangeFromPosition ==
  /\ act = [name |-> "preUpdate", tok |-> "B"] /\ Handled("pre")
  /\ docs["B"].hidden /\ "B" \notin busy
  /\ \E i \in DOMAIN tasks : tasks[i].kind = "create" /\ tasks[i].target = "B"
  /\ "B" \in DOMAIN pending
  /\ pending["B"].oldKey = keyFromDoc(docs["B"])
  /\ FindCell(cells, "B") = pending["B"].newKey

\* a post-change notification for t, from the host or the echo of a guarded
\* write, reaches the handler in this step
PostDelivered(t) ==
  /\ act'.name \in {"update", "resolved"}
  /\ \E i \in DOMAIN notes' : notes'[i].kind = "update" /\ notes'[i].tok = t

PostChangeStep ==
  \A t \in Tokens :
    /\ PostDelivered(t) /\ t \notin DOMAIN pending =>
         /\ \A i \in DOMAIN notes' :
              notes'[i].kind = "update" /\ notes'[i].tok = t
                => ~notes'[i].changed /\ notes'[i].issued = 0
         /\ act'.name = "update" =>
              /\ UNCHANGED <<cells, firstInCell, pending, busy, arrangedTokens, tasks>>
              /\ issued' = <<>>
    /\ PostDelivered(t) /\ t \in DOMAIN pending /\ t \notin busy =>
         t \notin DOMAIN pending'

\* C29: a post-change notification for an entity with no pending record issues no
\* mutation and changes no table; a post-change notification for a non-busy
\* entity with a pending record deletes the record in the step that delivers it,
\* before the first mutation of the handler is handed to the host.
PostChangeNoRecord == [][PostChangeStep]_vars

\* C29 witness: the host changed a field of B other than its position while A and
\* B share a cell, neither at the pair scale: the post-change reached the handler,
\* found no record, and nothing was issued or changed.
PostChangeSilent ==
  /\ act = [name |-> "update", tok |-> "B"] /\ Handled("update")
  /\ "B" \notin busy /\ pending = EmptyMap
  /\ cells = <<[key |-> <<0, 0>>, set |-> <<"A", "B">>]>>
  /\ ~AtScale(docs["A"], PairScale) /\ ~AtScale(docs["B"], PairScale)
  /\ issued = <<>> /\ tasks = <<>>
  /\ \A i \in DOMAIN notes : ~notes[i].changed

\* the deletion of t, recorded in a cell of the table, reaches the handler
DeletedFromCell(t) ==
  /\ act'.name = "delete" /\ act'.tok = t /\ Handled("delete")'
  /\ FindCell(cells, t) # NoKey

\* the solo-scale write for r is due: r exists, is not guarded, and is off the
\* solo scale by more than the tolerance
SoloWriteDue(r) ==
  /\ r \in Tokens /\ docs[r].st = "live" /\ r \notin busy
  /\ ~AtScale(docs[r], SoloScale)

DeletionFromSharedStep ==
  \A t \in Tokens :
    DeletedFromCell(t) =>
      LET key == FindCell(cells, t)
          rest == SeqDel(CellGet(cells, key), t)
      IN /\ Len(rest) = 1 =>
              /\ issued' = IF SoloWriteDue(rest[1])
                           THEN <<[tok |-> rest[1], data |-> ScaleData(SoloScale)]>>
                           ELSE <<>>
              /\ CellGet(cells', key) = rest /\ firstInCell'[key] = rest[1]
         /\ Len(rest) >= 2 =>
              /\ issued' = <<>> /\ tasks' = tasks
              /\ CellGet(cells', key) = rest
              /\ firstInCell[key] = t => SeqHas(rest, firstInCell'[key])
              /\ firstInCell[key] # t => firstInCell'[key] = firstInCell[key]
         /\ Len(rest) = 0 => issued' = <<>> /\ ~CellHas(cells', key)
         /\ \A i \in DOMAIN issued' : ~issued'[i].data.xy

\* C30: deletion from a shared cell: when an entity is deleted from a cell, the
\* only mutation issued is a scale-only write of the solo scale to the remaining
\* occupant when exactly one occupant remains; when two or more remain no
\* mutation is issued, and if the deleted entity was the first occupant the
\* first-occupant record moves to one of the remaining occupants.
DeletionFromShared == [][DeletionFromSharedStep]_vars

\* C30 witness: A, the first occupant of a cell shared by three tokens at pair
\* scale, has just been deleted: B and C remain, B is the first occupant, and
\* nothing was issued.
DeletedFirstOfThree ==
  /\ act = [name |-> "delete", tok |-> "A"] /\ Handled("delete")
  /\ cells = <<[key |-> <<0, 0>>, set |-> <<"B", "C">>]>>
  /\ firstInCell[<<0, 0>>] = "B"
  /\ AtScale(docs["B"], PairScale) /\ AtScale(docs["C"], PairScale)
  /\ issued = <<>> /\ tasks = <<>>

\* the five tables of state hold nothing
StateEmpty ==
  /\ cells = <<>> /\ firstInCell = EmptyMap /\ pending = EmptyMap
  /\ busy = {} /\ arrangedTokens = {}

\* C31: cleanup empties the state: immediately after cleanup() returns, cells,
\* firstInCell, pending, busy and arrangedTokens are all empty, whatever state
\* preceded the call.
CleanupEmpties == JustCleaned => StateEmpty

\* C31 witness: cleanup() has just returned with a guarded write still awaited: the
\* target of that write was in busy and in a cell when cleanup() was called.
CleanedWhileBusy ==
  /\ act.name = "cleanup" /\ StateEmpty
  /\ Len(tasks) = 1 /\ docs[tasks[1].target].st = "live"

\* cleanup() has returned and initialize() has not been called since: the
\* namespace object exists and the host holds no subscription of the module
CleanedUp == win /\ reg = {}

\* C32: state stays empty after cleanup: from the return of cleanup() until the
\* next initialize(), cells, firstInCell, pending, busy and arrangedTokens remain
\* empty and no mutation is issued, even when a guarded mutation or an
\* asynchronous handler was still in flight when cleanup() ran.
StaysEmpty == CleanedUp => StateEmpty /\ issued = <<>>

\* nothing is under way: no guarded write awaited, no record pending, no host
\* update announced and not yet applied
AtRest ==
  /\ busy = {} /\ pending = EmptyMap
  /\ tasks = <<>> /\ hostMoves = EmptyMap

\* C33: table tracks position: in every quiescent state (busy and pending empty,
\* no mutation in flight), every tracked entity is recorded in the cell that
\* contains its current position; in particular a host move of an entity that
\* arrives while that entity is busy is not lost from the occupancy table.
TableTracksPosition ==
  AtRest =>
    \A t \in Tokens :
      docs[t].st = "live" /\ FindCell(cells, t) # NoKey
        => FindCell(cells, t) = keyFromDoc(docs[t])

\* C34: pending records refer to tracked entities: in every reachable state, each
\* entity with a pending record is a member of that record's destination cell in
\* the occupancy table (no pending record survives the deletion of its entity).
PendingTracked ==
  \A t \in DOMAIN pending :
    /\ CellHas(cells, pending[t].newKey)
    /\ SeqHas(CellGet(cells, pending[t].newKey), t)

====
